---- MODULE Spec2Model ----
(***************************************************************************)
(* MKQuery: the entry dispatcher $, the collection type MQ and the         *)
(* single-node wrapper NodeWrapper, over a small host document.            *)
(*                                                                         *)
(* A JavaScript value is a record [ty, s, r]: its type tag, its string     *)
(* form (what a template literal `${v}` produces, as a sequence of tokens) *)
(* and its numeric or reference part.  A string is a sequence of tokens so *)
(* that startsWith, endsWith and slice act on it as they do in the code.   *)
(***************************************************************************)
EXTENDS Integers, Sequences, FiniteSets, TLC

VARIABLES dom, root, heap, win, call, ret, steps, log

vars == <<dom, root, heap, win, call, ret, steps, log>>

\* Bounds of the model: the elements of the initial document, the calls in one
\* behaviour that create or change something, and the largest index magnitude
\* passed to nth.
MaxInit == 2
MaxSteps == 2
MaxIdx == 3

\* The calls of $ in one behaviour of the specification of callback
\* registration
MaxCalls == 3

-----------------------------------------------------------------------------
(* JavaScript values *)

JS(ty, s, r) == [ty |-> ty, s |-> s, r |-> r]

Absent == JS("absent", <<>>, 0)              \* no such property (not a value)
Undefined == JS("undefined", <<"undefined">>, 0)
Null == JS("null", <<"null">>, 0)
Str(toks) == JS("string", toks, 0)
S(tok) == Str(<<tok>>)
EmptyStr == Str(<<>>)
NaN == JS("number", <<"NaN">>, 0)
True == JS("boolean", <<"true">>, 1)
False == JS("boolean", <<"false">>, 0)
Bool(b) == IF b THEN True ELSE False
Fn(name) == JS("function", <<"function", name>>, 0)
ElemRef(i) == JS("element", <<"[object HTMLElement]">>, i)
ObjRef(i) == JS("object", <<"[object Object]">>, i)

\* The decimal form of a small integer.
Digits == <<"0", "1", "2", "3", "4", "5", "6", "7", "8", "9">>
IntRange == -9..9
IntToStr(i) == IF i < 0 THEN <<"-" , Digits[(-i) + 1]>> ELSE <<Digits[i + 1]>>
Num(i) == JS("number", IntToStr(i), i)

\* typeof v
TypeOf(v) == IF v.ty \in {"element", "object", "null"} THEN "object" ELSE v.ty

\* ToBoolean(v): the test of `if (!t)`
Truthy(v) ==
    CASE v.ty \in {"undefined", "null", "absent"} -> FALSE
      [] v.ty = "string" -> v.s # <<>>
      [] v.ty = "number" -> v.r # 0 /\ v # NaN
      [] v.ty = "boolean" -> v.r = 1
      [] OTHER -> TRUE

\* `${v}`
ToStr(v) == Str(v.s)

\* parseInt(v): the integer its string form denotes, or NaN
ParseInt(v) ==
    IF \E i \in IntRange : IntToStr(i) = v.s
    THEN Num(CHOOSE i \in IntRange : IntToStr(i) = v.s)
    ELSE NaN

\* lo < x < hi as JavaScript evaluates it: (lo < x) is a boolean, which
\* counts as 0 or 1 in the second comparison
ChainedLess(lo, x, hi) == (IF lo < x THEN 1 ELSE 0) < hi

\* n.startsWith('<') && n.endsWith('>')
IsBracketed(n) == Len(n.s) >= 1 /\ n.s[1] = "<" /\ n.s[Len(n.s)] = ">"

\* n.slice(1, -1)
Slice1(n) == Str(SubSeq(n.s, 2, Len(n.s) - 1))

\* Property names that occur on elements, wrappers and options objects.
Names == {"n", "length", "__isProxy", "id", "title", "on", "useCapture",
          "__str__", "__isp__", "innerText", "innerHTML", "value"}

NoProps == [p \in Names |-> Absent]

\* Names of the error classes
IllegalArgument == "MQIllegalArguementError"
IndexOutOfBounds == "MQIndexOutOfBoundsError"
InvalidSelector == "MQInvalidSelectorError"
ElementCreation == "MQElementCreationError"
EventBind == "MQEventBindError"

\* Outcome of a call
Return(v) == [kind |-> "return", val |-> v, err |-> "", list |-> <<>>]
ReturnList(l) == [kind |-> "return", val |-> JS("array", <<>>, Len(l)), err |-> "", list |-> l]
Throw(e) == [kind |-> "throw", val |-> Undefined, err |-> e, list |-> <<>>]

-----------------------------------------------------------------------------
(* The host document *)

Tags == {"div", "input"}

\* Style properties of an element's inline style
CssProps == {"color"}

NewElement(tag, content, classes) ==
    [tag |-> tag,
     props |-> [p \in Names |->
                   CASE p \in {"innerText", "innerHTML"} -> Str(content)
                     [] p \in {"id", "title"} -> EmptyStr
                     [] p = "value" /\ tag = "input" -> Str(content)
                     [] OTHER -> Absent],
     classList |-> classes,
     style |-> [c \in CssProps |-> EmptyStr],
     listeners |-> <<>>,
     kids |-> <<>>]

\* element[p]
HostGet(el, p) == IF el.props[p] = Absent THEN Undefined ELSE el.props[p]

\* element[p] = v : string-valued properties store the string form; inner
\* text and inner markup show the same markup-free content
HostSet(el, p, v) ==
    CASE p \in {"innerText", "innerHTML"} ->
            [el EXCEPT !.props["innerText"] = ToStr(v), !.props["innerHTML"] = ToStr(v)]
      [] p \in {"id", "title"} -> [el EXCEPT !.props[p] = ToStr(v)]
      [] p = "value" /\ el.tag = "input" -> [el EXCEPT !.props[p] = ToStr(v)]
      [] OTHER -> [el EXCEPT !.props[p] = v]

\* target.addEventListener(e, c, u) on a listener list: the event name is
\* stored as a string and the third argument as a boolean; a listener of the
\* same event, callback and capture flag is not added a second time
Listener(e, c, u) == [event |-> ToStr(e), cb |-> c, capture |-> Bool(Truthy(u))]

AddEventListener(ls, e, c, u) ==
    IF \E k \in 1..Len(ls) : ls[k] = Listener(e, c, u) THEN ls
    ELSE Append(ls, Listener(e, c, u))

\* Elements of the document in document order (preorder of the tree)
RECURSIVE Walk(_, _)
Walk(d, ids) ==
    IF ids = <<>> THEN <<>>
    ELSE <<Head(ids)>> \o Walk(d, d[Head(ids)].kids) \o Walk(d, Tail(ids))

DocOrder(d, r) == Walk(d, r)

\* A list without the element n
Without(ids, n) == SelectSeq(ids, LAMBDA x : x # n)

\* The element n and everything below it
Subtree(d, n) == {Walk(d, <<n>>)[k] : k \in 1..Len(Walk(d, <<n>>))}

\* k.appendChild(n): n leaves the parent it has, or the top of the document,
\* and becomes the last child of k
AppendChild(d, r, k, n) ==
    [dom |-> [i \in DOMAIN d |->
                 [d[i] EXCEPT !.kids = IF i = k THEN Append(Without(@, n), n)
                                        ELSE Without(@, n)]],
     root |-> Without(r, n)]

\* Selector syntax: a tag name or the universal selector
IsValidSelector(n) == Len(n.s) = 1 /\ n.s[1] \notin {"<", ">", "!!"}

Matches(el, n) == n.s[1] = "*" \/ el.tag = n.s[1]

RECURSIVE Filter(_, _, _)
Filter(d, ids, n) ==
    IF ids = <<>> THEN <<>>
    ELSE (IF Matches(d[Head(ids)], n) THEN <<Head(ids)>> ELSE <<>>)
         \o Filter(d, Tail(ids), n)

\* document.querySelectorAll(n): the matches in document order
QuerySelectorAll(d, r, n) == Filter(d, DocOrder(d, r), n)

\* document.createElement(n) accepts a name, nothing else
IsValidTagName(n) == Len(n.s) = 1 /\ n.s[1] \notin {"<", ">", "!!", "*"}

-----------------------------------------------------------------------------
(* Objects of the program: single-node wrappers, collections, options *)

\* Names defined on every NodeWrapper by its class
NodeWrapperProto == {"click", "html", "text", "val", "css", "on", "append",
                     "appendTo", "get", "addClass", "removeClass", "find",
                     "contains", "list", "attr", "each", "constructor"}

\* Names defined on every MQ by its class
MQProto == {"css", "html", "text", "nth", "each", "map", "first", "last",
            "list", "length", "click", "on", "appendTo", "addClass",
            "removeClass", "constructor"}

Method(cls, p) == JS("function", <<cls, p>>, 0)

\* An object: its class, its own properties, the private list #nl of an MQ
\* and, for an options object, the keys as the caller wrote them
Obj(cls, own, nl, lit) == [cls |-> cls, own |-> own, nl |-> nl, lit |-> lit]

\* NodeWrapper.#proxify(t): marks the target and returns its proxy
Proxify(t) ==
    IF Truthy(t.own["__isProxy"]) THEN t
    ELSE [t EXCEPT !.own["__isProxy"] = True]

\* new NodeWrapper(n)
NodeWrapper(n) ==
    Proxify(Obj("NodeWrapper",
                [NoProps EXCEPT !["n"] = n, !["length"] = Num(1),
                                !["__isProxy"] = False],
                <<>>, NoProps))

\* p in _t, for the target of a wrapper's proxy
InWrapper(t, p) == (p \in Names /\ t.own[p] # Absent) \/ p \in NodeWrapperProto

OwnOr(o, p, dflt) == IF p \in Names /\ o.own[p] # Absent THEN o.own[p] ELSE dflt

RECURSIVE GetProp(_, _, _, _)
RECURSIVE ProxyGet(_, _, _, _)

\* The proxy's get trap: (p in _t) ? _t[p] : t.n[p]
ProxyGet(d, h, t, p) ==
    IF InWrapper(t, p)
    THEN OwnOr(t, p, Method("NodeWrapper", p))
    ELSE GetProp(d, h, t.own["n"], p)

\* v[p] for any value v; a wrapper answers through its proxy's get trap
GetProp(d, h, v, p) ==
    CASE v.ty = "element" -> HostGet(d[v.r], p)
      [] v.ty = "object" /\ h[v.r].cls = "NodeWrapper" -> ProxyGet(d, h, h[v.r], p)
      [] v.ty = "object" /\ h[v.r].cls = "MQ" ->
            OwnOr(h[v.r], p, IF p \in MQProto THEN Method("MQ", p) ELSE Undefined)
      [] v.ty = "object" -> OwnOr(h[v.r], p, Undefined)
      [] OTHER -> Undefined

\* n.get(): NodeWrapper.get returns this.n; anything else has no get
CallGet(d, h, n) ==
    IF GetProp(d, h, n, "get") = Method("NodeWrapper", "get")
    THEN Return(GetProp(d, h, n, "n"))
    ELSE Throw("TypeError")

-----------------------------------------------------------------------------
(* NodeWrapper: operations on the wrapped element *)

\* What an operation leaves: its outcome, the document and the objects
Eff(rt, d, h) == [ret |-> rt, dom |-> d, heap |-> h]

RECURSIVE SetProp(_, _, _, _, _)
RECURSIVE ProxySet(_, _, _, _, _)

\* The proxy's set trap on the wrapper at heap index i:
\* if (p in _t) _t[p] = v, else t.n[p] = v
MutProxySetAlwaysNode(d, h, i, p, v) == SetProp(d, h, h[i].own["n"], p, v)
ProxySet(d, h, i, p, v) ==
    IF InWrapper(h[i], p)
    THEN Eff(Return(v), d, [h EXCEPT ![i].own[p] = v])
    ELSE SetProp(d, h, h[i].own["n"], p, v)

\* x[p] = v for any value x
SetProp(d, h, x, p, v) ==
    CASE x.ty = "element" -> Eff(Return(v), [d EXCEPT ![x.r] = HostSet(@, p, v)], h)
      [] x.ty = "object" /\ h[x.r].cls = "NodeWrapper" -> ProxySet(d, h, x.r, p, v)
      [] x.ty = "object" -> Eff(Return(v), d, [h EXCEPT ![x.r].own[p] = v])
      [] OTHER -> Eff(Return(v), d, h)

\* The i-th argument of a call, undefined when it was not passed
Arg(args, i) == IF i <= Len(args) THEN args[i] ELSE Undefined

\* this.n, read through the proxy
NodeOf(d, h, w) == GetProp(d, h, w, "n")

\* NodeWrapper.html(t) and NodeWrapper.text(t), on property p
NWContent(d, h, w, p, t) ==
    IF ~Truthy(t) THEN Eff(Return(GetProp(d, h, NodeOf(d, h, w), p)), d, h)
    ELSE LET e == SetProp(d, h, NodeOf(d, h, w), p, ToStr(t))
         IN  Eff(Return(w), e.dom, e.heap)

NWHtml(d, h, w, t) == NWContent(d, h, w, "innerHTML", t)

NWText(d, h, w, t) == NWContent(d, h, w, "innerText", t)

\* 'value' in this.n
HasValue(d, h, n) ==
    CASE n.ty = "element" -> d[n.r].props["value"] # Absent
      [] n.ty = "object" -> h[n.r].own["value"] # Absent
      [] OTHER -> FALSE

\* NodeWrapper.val(t)
MutNWValEmptyReads(d, h, w, t) ==
    IF ~HasValue(d, h, NodeOf(d, h, w)) THEN Eff(Return(Null), d, h)
    ELSE IF ~Truthy(t)
         THEN Eff(Return(GetProp(d, h, NodeOf(d, h, w), "value")), d, h)
         ELSE LET e == SetProp(d, h, NodeOf(d, h, w), "value", ToStr(t))
              IN  Eff(Return(w), e.dom, e.heap)
NWVal(d, h, w, t) ==
    IF ~HasValue(d, h, NodeOf(d, h, w)) THEN Eff(Return(Null), d, h)
    ELSE IF ~Truthy(t) /\ t # EmptyStr
         THEN Eff(Return(GetProp(d, h, NodeOf(d, h, w), "value")), d, h)
         ELSE LET e == SetProp(d, h, NodeOf(d, h, w), "value", ToStr(t))
              IN  Eff(Return(w), e.dom, e.heap)

\* NodeWrapper.css(p, v, i) on a wrapped element
NWCss(d, h, w, p, v, i) ==
    LET n == NodeOf(d, h, w)
    IN  IF ~Truthy(p) THEN Eff(Return(JS("style", <<>>, n.r)), d, h)
        ELSE IF ~Truthy(v)
             THEN Eff(Return(IF p.s[1] \in CssProps THEN d[n.r].style[p.s[1]] ELSE EmptyStr), d, h)
             ELSE Eff(Return(w),
                      IF p.s[1] \in CssProps
                      THEN [d EXCEPT ![n.r].style[p.s[1]] = ToStr(v)] ELSE d, h)

\* The class names of a list of string arguments
ClassNames(c) == {c[k].s[1] : k \in 1..Len(c)}

\* A rest parameter ...c is an array, whatever the number of arguments
RestArray(c) == JS("array", <<>>, Len(c))

\* NodeWrapper.addClass(...c)
NWAddClass(d, h, w, c) ==
    IF ~Truthy(RestArray(c)) THEN Eff(Throw(IllegalArgument), d, h)
    ELSE Eff(Return(w), [d EXCEPT ![NodeOf(d, h, w).r].classList = @ \cup ClassNames(c)], h)

\* NodeWrapper.removeClass(...c)
NWRemoveClass(d, h, w, c) ==
    IF ~Truthy(RestArray(c)) THEN Eff(Throw(IllegalArgument), d, h)
    ELSE Eff(Return(w), [d EXCEPT ![NodeOf(d, h, w).r].classList = @ \ ClassNames(c)], h)

\* NodeWrapper.click(): the host dispatches a click at the element; what the
\* listeners then do is theirs
NWClick(d, h, w) ==
    IF NodeOf(d, h, w).ty # "element" THEN Eff(Throw("TypeError"), d, h)
    ELSE Eff(Return(w), d, h)

\* NodeWrapper.on(e, c, u)
MutNWOnAnyCallback(d, h, w, e, c, u) ==
    IF ~Truthy(e) \/ ~Truthy(c) THEN Eff(Throw(EventBind), d, h)
    ELSE LET n == NodeOf(d, h, w)
         IN  IF n.ty # "element" THEN Eff(Throw("TypeError"), d, h)
             ELSE Eff(Return(w),
                      [d EXCEPT ![n.r].listeners = AddEventListener(@, e, c, u)], h)
NWOn(d, h, w, e, c, u) ==
    IF ~Truthy(e) \/ ~Truthy(c) THEN Eff(Throw(EventBind), d, h)
    ELSE IF TypeOf(c) # "function" THEN Eff(Throw(EventBind), d, h)
    ELSE LET n == NodeOf(d, h, w)
         IN  IF n.ty # "element" THEN Eff(Throw("TypeError"), d, h)
             ELSE Eff(Return(w),
                      [d EXCEPT ![n.r].listeners = AddEventListener(@, e, c, u)], h)

\* Functions the caller passes to each and map:
\* f is w => {} and mark is w => w.addClass('m')
Callbacks == {Fn("f"), Fn("mark")}

\* c(w) for a callback c
CallFn(d, h, c, w) ==
    IF c = Fn("mark") THEN NWAddClass(d, h, w, <<S("m")>>)
    ELSE Eff(Return(Undefined), d, h)

\* An effect together with the callback invocations made, in order
EffLog(rt, d, h, l) == [ret |-> rt, dom |-> d, heap |-> h, log |-> l]

Invocation(c, w) == [cb |-> c, arg |-> w]

\* A single-node operation by name
NWApply(d, h, w, op, args) ==
    CASE op = "html" -> NWHtml(d, h, w, Arg(args, 1))
      [] op = "click" -> NWClick(d, h, w)
      [] op = "on" -> NWOn(d, h, w, Arg(args, 1), Arg(args, 2), Arg(args, 3))
      [] op = "text" -> NWText(d, h, w, Arg(args, 1))
      [] op = "val" -> NWVal(d, h, w, Arg(args, 1))
      [] op = "css" -> NWCss(d, h, w, Arg(args, 1), Arg(args, 2), Arg(args, 3))
      [] op = "addClass" -> NWAddClass(d, h, w, args)
      [] op = "removeClass" -> NWRemoveClass(d, h, w, args)

-----------------------------------------------------------------------------
(* MQ: construction *)

\* Result of a constructor or of $: the outcome and the objects it leaves
Res(rt, d, h, w, o) == [ret |-> rt, dom |-> d, heap |-> h, win |-> w, opts |-> o]

\* MQ.#wrap: each selected element gets a NodeWrapper of its own
RECURSIVE Wrap(_)
MutWrapSameNode(m) == [i \in 1..Len(m) |-> NodeWrapper(ElemRef(m[1]))]
Wrap(m) ==
    IF m = <<>> THEN <<>>
    ELSE <<NodeWrapper(ElemRef(Head(m)))>> \o Wrap(Tail(m))

\* The references #nl holds once the wrappers are allocated after heap h
WrapRefs(h, m) == [i \in 1..Len(m) |-> ObjRef(Len(h) + i)]

\* this.length, as the constructor sets it
LengthField(nl) == IF Len(nl) = 0 THEN Num(0) ELSE Num(Len(nl))

\* The constructor's return: this.#nl.length == 1 ? this.first() : this
MutCtorReturnSelf(nl, self) == self
CtorReturn(nl, self) == IF Len(nl) = 1 THEN nl[1] ELSE self

\* Object.keys(o) in a fixed order
KeyOrder == <<"id", "title", "on", "useCapture", "__str__", "__isp__", "n",
              "length", "__isProxy", "value", "innerText", "innerHTML">>

\* for (let __ of Object.keys(o)) _.get()[__] = o[__]
RECURSIVE CopyKeys(_, _, _)
CopyKeys(el, o, ks) ==
    IF ks = <<>> THEN el
    ELSE CopyKeys(IF o[Head(ks)] # Absent THEN HostSet(el, Head(ks), o[Head(ks)]) ELSE el,
                  o, Tail(ks))

\* MQ.__create__(n, o)
Create(d, h, w, n, o) ==
    IF ~IsValidTagName(n)
    THEN Res(Throw(ElementCreation), d, h, w, o)
    ELSE Res(Return(ObjRef(Len(h) + 1)),
             Append(d, CopyKeys(NewElement(n.s[1], <<>>, {}), o, KeyOrder)),
             Append(h, NodeWrapper(ElemRef(Len(d) + 1))),
             w, o)

\* The selector branch of the constructor
Select(d, r, h, w, n, o) ==
    IF ~IsValidSelector(n)
    THEN Res(Throw(InvalidSelector), d, h, w, o)
    ELSE LET m == QuerySelectorAll(d, r, n)
             nl == WrapRefs(h, m)
             h1 == h \o Wrap(m)
             self == ObjRef(Len(h1) + 1)
             mq == Obj("MQ", [NoProps EXCEPT !["length"] = LengthField(nl)], nl, NoProps)
             out == CtorReturn(nl, self)
         IN  Res(Return(out), d, IF out = self THEN Append(h1, mq) ELSE h1, w, o)

\* new MQ(n, o)
MQConstructor(d, r, h, w, n, o) ==
    IF ~Truthy(o["__str__"])
    THEN IF Truthy(o["__isp__"])
         THEN LET g == CallGet(d, h, n)
              IN  IF g.kind = "throw" THEN Res(g, d, h, w, o)
                  ELSE Res(Return(ObjRef(Len(h) + 1)), d,
                           Append(h, NodeWrapper(g.val)), w, o)
         ELSE Res(Return(ObjRef(Len(h) + 1)), d, Append(h, NodeWrapper(n)), w, o)
    ELSE LET o1 == [o EXCEPT !["__str__"] = Absent]
         IN  IF n.ty # "string" THEN Res(Throw("TypeError"), d, h, w, o1)
             ELSE IF IsBracketed(n) THEN Create(d, h, w, Slice1(n), o1)
             ELSE Select(d, r, h, w, n, o1)

\* $(args, options)
Dollar(d, r, h, w, args, o) ==
    CASE TypeOf(args) = "string" ->
            MQConstructor(d, r, h, w, args, [o EXCEPT !["__str__"] = True])
      [] TypeOf(args) = "function" ->
            LET o1 == [o EXCEPT !["on"] = IF @ = Absent THEN S("load") ELSE @,
                                !["useCapture"] = IF @ = Absent THEN False ELSE @]
                w1 == AddEventListener(w, o1["on"], args, o1["useCapture"])
            IN  MQConstructor(d, r, h, w1, args, o1)
      [] args.ty \in {"undefined", "null"} ->
            Res(Throw("TypeError"), d, h, w, [o EXCEPT !["__str__"] = False])
      [] OTHER ->
            MQConstructor(d, r, h, w, args,
                [o EXCEPT !["__str__"] = False,
                          !["__isp__"] = Bool(Truthy(GetProp(d, h, args, "__isProxy")))])

-----------------------------------------------------------------------------
(* Moving elements *)

\* An effect that may also change the top of the document
EffRoot(rt, d, r, h) == [ret |-> rt, dom |-> d, heap |-> h, root |-> r]

\* k.appendChild(this.n) as the host performs or refuses it
HostAppend(d, r, h, w, k) ==
    LET n == NodeOf(d, h, w)
    IN  IF k.ty # "element" \/ n.ty # "element" THEN EffRoot(Throw("TypeError"), d, r, h)
        ELSE IF k.r \in Subtree(d, n.r) THEN EffRoot(Throw("HierarchyRequestError"), d, r, h)
        ELSE LET a == AppendChild(d, r, k.r, n.r)
             IN  EffRoot(Return(w), a.dom, a.root, h)

\* NodeWrapper.appendTo(n)
NWAppendTo(d, r, h, w, n) ==
    IF TypeOf(n) = "string"
    THEN LET m == MQConstructor(d, r, h, <<>>, n, [NoProps EXCEPT !["__str__"] = True])
         IN  IF m.ret.kind = "throw" THEN EffRoot(m.ret, m.dom, r, m.heap)
             ELSE LET g == CallGet(m.dom, m.heap, m.ret.val)
                  IN  IF g.kind = "throw" THEN EffRoot(g, m.dom, r, m.heap)
                      ELSE HostAppend(m.dom, r, m.heap, w, g.val)
    ELSE IF n.ty = "object" /\ h[n.r].cls = "NodeWrapper"
         THEN HostAppend(d, r, h, w, CallGet(d, h, n).val)
         ELSE HostAppend(d, r, h, w, n)

\* MQ.appendTo(n): this.each(e => e.appendTo(n)); each member's effect is
\* computed once and handed to the rest of the loop
RECURSIVE AppendLoop(_, _, _, _, _)
AppendLoop(d, r, h, nl, n) ==
    IF nl = <<>> THEN EffRoot(Return(Undefined), d, r, h)
    ELSE CHOOSE out \in {IF e.ret.kind = "throw" THEN e
                         ELSE AppendLoop(e.dom, e.root, e.heap, Tail(nl), n) :
                         e \in {NWAppendTo(d, r, h, Head(nl), n)}} : TRUE

MQAppendTo(d, r, h, c, n) ==
    LET e == AppendLoop(d, r, h, h[c.r].nl, n)
    IN  IF e.ret.kind = "throw" THEN e ELSE EffRoot(Return(c), e.dom, e.root, e.heap)

-----------------------------------------------------------------------------
(* MQ: reading a collection *)

\* this.#nl[i] with a JavaScript (0-based) index
At(nl, i) == IF i + 1 \in 1..Len(nl) THEN nl[i + 1] ELSE Undefined

\* n += n < 0 ? this.#nl.length : 0
MutWrapAroundNone(n, len) == n
WrapAround(n, len) == IF n < 0 THEN n + len ELSE n

\* MQ.nth(n)
MQNth(c, n) ==
    LET k == ParseInt(n)
    IN  IF k = NaN THEN Throw(IllegalArgument)
        ELSE LET m == WrapAround(k.r, Len(c.nl))
             IN  IF ~ChainedLess(0, m, Len(c.nl)) THEN Throw(IndexOutOfBounds)
                 ELSE Return(At(c.nl, m))

\* MQ.first()
MQFirst(c) == Return(At(c.nl, 0))

\* MQ.last()
MQLast(c) == Return(At(c.nl, Len(c.nl) - 1))

\* MQ.list()
MQList(c) == ReturnList(c.nl)

\* c.length(): the call goes to whatever the name length resolves to on the
\* collection, its own property before the method of its class
MQLength(d, h, c) ==
    IF GetProp(d, h, c, "length") = Method("MQ", "length")
    THEN Return(Num(Len(h[c.r].nl)))
    ELSE Throw("TypeError")

\* MQ[Symbol.iterator]: the values next() yields until it reports done
RECURSIVE IterFrom(_, _)
IterFrom(nl, i) ==
    IF i = Len(nl) THEN <<>>
    ELSE <<At(nl, i)>> \o IterFrom(nl, i + 1)

MQIterate(c) == ReturnList(IterFrom(c.nl, 0))

-----------------------------------------------------------------------------
(* MQ: mass operations *)

\* for (let _ of this.#nl) _.op(...args): stops at the first member that throws
RECURSIVE ForEach(_, _, _, _, _)
MutForEachFirstOnly(d, h, nl, op, args) ==
    IF nl = <<>> THEN Eff(Return(Undefined), d, h)
    ELSE NWApply(d, h, Head(nl), op, args)
ForEach(d, h, nl, op, args) ==
    IF nl = <<>> THEN Eff(Return(Undefined), d, h)
    ELSE LET e == NWApply(d, h, Head(nl), op, args)
         IN  IF e.ret.kind = "throw" THEN e
             ELSE ForEach(e.dom, e.heap, Tail(nl), op, args)

\* MQ.each(e => e.op(...args)) on collection c: returns this
MQEach(d, h, c, op, args) ==
    LET e == ForEach(d, h, h[c.r].nl, op, args)
    IN  IF e.ret.kind = "throw" THEN e ELSE Eff(Return(c), e.dom, e.heap)

\* MQ.css(p, v, i): the loop's result is not returned
MQCss(d, h, c, args) ==
    IF ~Truthy(Arg(args, 1)) \/ ~Truthy(Arg(args, 2)) THEN Eff(Throw(IllegalArgument), d, h)
    ELSE ForEach(d, h, h[c.r].nl, "css", args)

\* MQ.html(t)
MQHtml(d, h, c, args) ==
    IF ~Truthy(Arg(args, 1)) THEN Eff(Throw(IllegalArgument), d, h)
    ELSE MQEach(d, h, c, "html", <<Arg(args, 1)>>)

\* MQ.text(t)
MQText(d, h, c, args) ==
    IF ~Truthy(Arg(args, 1)) THEN Eff(Throw(IllegalArgument), d, h)
    ELSE MQEach(d, h, c, "text", <<Arg(args, 1)>>)

\* MQ.addClass(...c)
MQAddClass(d, h, c, args) == MQEach(d, h, c, "addClass", args)

\* MQ.removeClass(...c)
MQRemoveClass(d, h, c, args) == MQEach(d, h, c, "removeClass", args)

\* MQ.click()
MQClick(d, h, c) == MQEach(d, h, c, "click", <<>>)

\* MQ.on(e, c, u)
MQOn(d, h, c, args) == MQEach(d, h, c, "on", args)

\* for (let _ of this.#nl) _results.push(c(_)): the results and the
\* invocations so far; stops at the first invocation that throws
RECURSIVE CallLoop(_, _, _, _, _, _)
CallLoop(d, h, nl, c, results, l) ==
    IF nl = <<>> THEN [ret |-> ReturnList(results), dom |-> d, heap |-> h, log |-> l]
    ELSE LET e == CallFn(d, h, c, Head(nl))
             l1 == Append(l, Invocation(c, Head(nl)))
         IN  IF e.ret.kind = "throw" THEN EffLog(e.ret, e.dom, e.heap, l1)
             ELSE CallLoop(e.dom, e.heap, Tail(nl), c, Append(results, e.ret.val), l1)

\* MQ.each(c) with a function of the caller
MQEachFn(d, h, c, f) ==
    IF TypeOf(f) # "function" THEN EffLog(Throw(IllegalArgument), d, h, <<>>)
    ELSE LET e == CallLoop(d, h, h[c.r].nl, f, <<>>, <<>>)
         IN  IF e.ret.kind = "throw" THEN e
             ELSE EffLog(Return(c), e.dom, e.heap, e.log)

\* MQ.map(c)
MQMap(d, h, c, f) ==
    IF TypeOf(f) # "function" THEN EffLog(Throw(IllegalArgument), d, h, <<>>)
    ELSE CallLoop(d, h, h[c.r].nl, f, <<>>, <<>>)

\* A mass operation by name
MQApply(d, h, c, op, args) ==
    CASE op = "css" -> MQCss(d, h, c, args)
      [] op = "html" -> MQHtml(d, h, c, args)
      [] op = "text" -> MQText(d, h, c, args)
      [] op = "addClass" -> MQAddClass(d, h, c, args)
      [] op = "removeClass" -> MQRemoveClass(d, h, c, args)

-----------------------------------------------------------------------------
(* State *)

\* The call just made: operation, receiver, arguments, options object (0: none)
Call(op, self, args, opt) == [op |-> op, self |-> self, args |-> args, opt |-> opt]

\* Option literals the caller writes
Configs == {NoProps,
            [NoProps EXCEPT !["id"] = S("x")],
            [NoProps EXCEPT !["on"] = S("click"), !["useCapture"] = True]}

\* A document of n elements, whose document order is the reverse of their
\* numbering
Reverse(n) == [i \in 1..n |-> n + 1 - i]

Init ==
    /\ \E n \in 0..MaxInit : \E tags \in [1..n -> Tags] :
          /\ dom = [i \in 1..n |-> NewElement(tags[i], <<"old">>, {"c0"})]
          /\ root = Reverse(n)
    /\ heap = <<>>
    /\ win = <<>>
    /\ call = Call("start", Undefined, <<>>, 0)
    /\ ret = Return(Undefined)
    /\ steps = 0
    /\ log = <<>>

Refs(cls) == {ObjRef(i) : i \in {j \in 1..Len(heap) : heap[j].cls = cls}}
Wrappers == Refs("NodeWrapper")
Collections == Refs("MQ")
OptionsObjects == {i \in 1..Len(heap) : heap[i].cls = "Object"}

\* What the caller's latest $ call handed out: a collection and its members,
\* or one wrapper
LatestCollections ==
    IF heap # <<>> /\ heap[Len(heap)].cls = "MQ" THEN {ObjRef(Len(heap))} ELSE {}
LatestWrappers ==
    IF heap = <<>> THEN {}
    ELSE IF heap[Len(heap)].cls = "MQ"
         THEN {heap[Len(heap)].nl[i] : i \in 1..Len(heap[Len(heap)].nl)}
         ELSE IF heap[Len(heap)].cls = "NodeWrapper" THEN {ObjRef(Len(heap))} ELSE {}

\* Strings passed to $
Selectors == {S("div"), S("input"), S("*"), S("!!")}
TagStrings == {Str(<<"<", "div", ">">>), Str(<<"<", ">">>)}

\* One call $(args, options) with options object o, which the caller keeps at
\* heap index oi (0: the caller passes none and the default {} is dropped),
\* within a budget of calls
DollarStepWithin(budget, args, o, oi) ==
    /\ steps < budget
    /\ LET h0 == IF oi = Len(heap) + 1 THEN Append(heap, Obj("Object", o, <<>>, o))
                 ELSE heap
           res == Dollar(dom, root, h0, win, args, o)
       IN  /\ dom' = res.dom
           /\ heap' = IF oi = 0 THEN res.heap ELSE [res.heap EXCEPT ![oi].own = res.opts]
           /\ win' = res.win
           /\ ret' = res.ret
    /\ call' = Call("$", Undefined, <<args>>, oi)
    /\ steps' = steps + 1
    /\ log' = <<>>
    /\ UNCHANGED root

DollarStep(args, o, oi) == DollarStepWithin(MaxSteps, args, o, oi)

\* $(selector)
SelectCall == \E s \in Selectors : DollarStep(s, NoProps, 0)

\* $ with any kind of argument: without options, with an options object the
\* caller passed before, or with the first one the caller writes
DispatchArgs ==
    {S("div"), S("!!")} \cup TagStrings \cup {Fn("f")} \cup Wrappers \cup Collections
        \cup {ElemRef(i) : i \in 1..Len(dom)}

DispatchCall ==
    \E a \in DispatchArgs :
      \/ DollarStep(a, NoProps, 0)
      \/ \E oi \in OptionsObjects : DollarStep(a, heap[oi].own, oi)
      \/ /\ OptionsObjects = {}
         /\ \E cfg \in Configs : DollarStep(a, cfg, Len(heap) + 1)

\* A call that reads collection c and changes nothing
ReadStep(op, c, args, out) ==
    /\ call' = Call(op, c, args, 0)
    /\ ret' = out
    /\ log' = <<>>
    /\ UNCHANGED <<dom, root, heap, win, steps>>

\* Indexes passed to nth: numbers, a numeric string, a non-numeric string
NthArgs == {Num(i) : i \in -MaxIdx..MaxIdx} \cup {S("1"), S("x")}

NthCall ==
    \E c \in Collections : \E n \in NthArgs :
      ReadStep("nth", c, <<n>>, MQNth(heap[c.r], n))

FirstCall == \E c \in Collections : ReadStep("first", c, <<>>, MQFirst(heap[c.r]))

LastCall == \E c \in Collections : ReadStep("last", c, <<>>, MQLast(heap[c.r]))

ListCall == \E c \in Collections : ReadStep("list", c, <<>>, MQList(heap[c.r]))

IterateCall == \E c \in Collections : ReadStep("iterate", c, <<>>, MQIterate(heap[c.r]))

LengthCall == \E c \in Collections : ReadStep("length", c, <<>>, MQLength(dom, heap, c))

NextSelect ==
    SelectCall \/ NthCall \/ FirstCall \/ LastCall \/ ListCall \/ IterateCall
        \/ LengthCall

SpecSelect == Init /\ [][NextSelect]_vars

\* $(callback) and $(wrapper), each without options, with the options object
\* the caller passed before, or with the first one the caller writes
WithOptions(a) ==
    \/ DollarStepWithin(MaxCalls, a, NoProps, 0)
    \/ \E oi \in OptionsObjects : DollarStepWithin(MaxCalls, a, heap[oi].own, oi)
    \/ /\ OptionsObjects = {}
       /\ \E cfg \in Configs : DollarStepWithin(MaxCalls, a, cfg, Len(heap) + 1)

RegisterCall == \E f \in {Fn("f"), Fn("g")} : WithOptions(f)

CopyCall == \E w \in LatestWrappers : WithOptions(w)

NextCallback == SelectCall \/ RegisterCall \/ CopyCall

SpecCallback == Init /\ [][NextCallback]_vars

NextDispatch == DispatchCall

SpecDispatch == Init /\ [][NextDispatch]_vars

-----------------------------------------------------------------------------
(* Calls on wrappers and collections *)

\* A call on receiver self with effect e (x, once computed); it counts as a
\* step when it changes the document or an object; the log holds the
\* callbacks the call invoked
OpStep(op, self, args, e) ==
    \E x \in {e} :
      /\ (x.dom # dom \/ x.heap # heap) => steps < MaxSteps
      /\ root' = IF "root" \in DOMAIN x THEN x.root ELSE root
      /\ dom' = x.dom
      /\ heap' = x.heap
      /\ ret' = x.ret
      /\ call' = Call(op, self, args, 0)
      /\ steps' = IF x.dom # dom \/ x.heap # heap THEN steps + 1 ELSE steps
      /\ log' = IF "log" \in DOMAIN x THEN x.log ELSE <<>>
      /\ UNCHANGED win

\* Arguments of html, text and val: none, strings, numbers
ContentArgs == {<<>>, <<S("a")>>, <<EmptyStr>>, <<Num(5)>>, <<Num(0)>>}

CssArgs == {<<>>, <<S("color")>>, <<S("color"), S("red")>>}

ClassArgs == {<<>>, <<S("a")>>, <<S("c0")>>}

MassOps == {"css", "html", "text", "addClass", "removeClass"}

MassArgs(op) ==
    CASE op \in {"html", "text"} -> ContentArgs
      [] op = "css" -> CssArgs
      [] OTHER -> ClassArgs

\* c.op(...args) on a collection
MassCall ==
    \E c \in LatestCollections : \E op \in MassOps : \E args \in MassArgs(op) :
      OpStep(op, c, args, MQApply(dom, heap, c, op, args))

\* w.html(...), w.text(...), w.val(...) on a single-node wrapper
ContentCall ==
    \E w \in LatestWrappers : \E op \in {"html", "text", "val"} : \E args \in ContentArgs :
      OpStep(op, w, args, NWApply(dom, heap, w, op, args))

\* Names read and written through a wrapper's proxy
PropReads == {"length", "n", "get", "on", "id", "value"}

PropWrites ==
    {<<"length", Num(7)>>, <<"on", S("z")>>, <<"id", S("z")>>, <<"id", Num(7)>>,
     <<"value", S("z")>>}
      \cup {<<"n", ElemRef(i)>> : i \in 1..Len(dom)}

\* w[p]
PropGetCall ==
    \E w \in LatestWrappers : \E p \in PropReads :
      OpStep("get[]", w, <<S(p)>>, Eff(Return(GetProp(dom, heap, w, p)), dom, heap))

\* w[p] = v
PropSetCall ==
    \E w \in LatestWrappers : \E pv \in PropWrites :
      OpStep("set[]", w, <<S(pv[1]), pv[2]>>, SetProp(dom, heap, w, pv[1], pv[2]))

\* Arguments of each and map: none, a string, a function
EachArgs == {<<>>, <<S("a")>>} \cup {<<f>> : f \in Callbacks}

\* c.each(...)
EachCall ==
    \E c \in LatestCollections : \E args \in EachArgs :
      OpStep("each", c, args, MQEachFn(dom, heap, c, Arg(args, 1)))

\* c.map(...)
MapCall ==
    \E c \in LatestCollections : \E args \in EachArgs :
      OpStep("map", c, args, MQMap(dom, heap, c, Arg(args, 1)))

\* c.click()
ClickCall ==
    \E c \in LatestCollections : OpStep("click", c, <<>>, MQClick(dom, heap, c))

\* Arguments of on: nothing, an event name only, a callback that is not a
\* function, a function, a capture flag, an empty event name
OnArgs == {<<>>, <<S("click")>>, <<S("click"), S("a")>>, <<S("click"), Fn("f")>>,
           <<S("click"), Fn("f"), True>>, <<EmptyStr, Fn("f")>>}

\* c.on(...) on a collection
CollectionOnCall ==
    \E c \in LatestCollections : \E args \in OnArgs :
      OpStep("on", c, args, MQOn(dom, heap, c, args))

\* w.on(...) on a single-node wrapper
WrapperOnCall ==
    \E w \in LatestWrappers : \E args \in OnArgs :
      OpStep("on", w, args, NWOn(dom, heap, w, Arg(args, 1), Arg(args, 2), Arg(args, 3)))

\* Parents passed to appendTo: selector text, a wrapped node, a raw host node,
\* and null
ParentArgs ==
    {S("div"), S("input"), S("!!")} \cup LatestWrappers
        \cup {ElemRef(i) : i \in 1..Len(dom)} \cup {Null}

\* c.appendTo(n) on a collection
CollectionAppendToCall ==
    \E c \in LatestCollections : \E n \in ParentArgs :
      OpStep("appendTo", c, <<n>>, MQAppendTo(dom, root, heap, c, n))

\* w.appendTo(n) on a single-node wrapper
WrapperAppendToCall ==
    \E w \in LatestWrappers : \E n \in ParentArgs :
      OpStep("appendTo", w, <<n>>, NWAppendTo(dom, root, heap, w, n))

NextMass == SelectCall \/ MassCall \/ EachCall \/ MapCall

SpecMass == Init /\ [][NextMass]_vars

NextContent == SelectCall \/ ContentCall

SpecContent == Init /\ [][NextContent]_vars

NextProxy == SelectCall \/ PropGetCall \/ PropSetCall

SpecProxy == Init /\ [][NextProxy]_vars

NextChain ==
    SelectCall \/ MassCall \/ EachCall \/ ClickCall \/ CollectionOnCall
        \/ CollectionAppendToCall

SpecChain == Init /\ [][NextChain]_vars

NextEvent == SelectCall \/ CollectionOnCall \/ WrapperOnCall

SpecEvent == Init /\ [][NextEvent]_vars

NextAppend == SelectCall \/ WrapperAppendToCall

SpecAppend == Init /\ [][NextAppend]_vars

-----------------------------------------------------------------------------
(* Properties of selection and indexed access *)

\* The last call was $(selector) with a well-formed selector
IsSelectorCall ==
    /\ call.op = "$"
    /\ call.args[1].ty = "string"
    /\ ~IsBracketed(call.args[1])
    /\ IsValidSelector(call.args[1])

\* The elements the selector of the last call matches, in document order
MatchesOfCall == QuerySelectorAll(dom, root, call.args[1])

IsWrapperOf(v, e) ==
    /\ v.ty = "object"
    /\ heap[v.r].cls = "NodeWrapper"
    /\ CallGet(dom, heap, v) = Return(ElemRef(e))

\* The elements the wrappers of a list wrap
Unwrapped(l) == [i \in 1..Len(l) |-> heap[l[i].r].own["n"].r]

\* C1: a selector that matches exactly one element yields a NodeWrapper whose
\* get() is that element, and no collection of size one is ever handed out.
C1_SingleMatchIsWrapper ==
    /\ (IsSelectorCall /\ Len(MatchesOfCall) = 1) =>
          /\ ret.kind = "return"
          /\ IsWrapperOf(ret.val, MatchesOfCall[1])
    /\ \A c \in Collections : Len(heap[c.r].nl) # 1

C1_Witness ==
    /\ IsSelectorCall
    /\ Len(MatchesOfCall) = 1
    /\ ret.kind = "return"
    /\ IsWrapperOf(ret.val, MatchesOfCall[1])

\* C2: a selector that matches N # 1 elements yields a collection whose length
\* field is N and whose members wrap the N matches in document order, each in
\* a NodeWrapper of its own; list() and iteration yield exactly those members;
\* for N = 0 the collection is empty and no error is raised.
C2_CollectionHoldsMatches ==
    /\ (IsSelectorCall /\ Len(MatchesOfCall) # 1) =>
          /\ ret.kind = "return"
          /\ ret.val \in Collections
          /\ LET c == heap[ret.val.r]
             IN  /\ c.own["length"] = Num(Len(MatchesOfCall))
                 /\ Len(c.nl) = Len(MatchesOfCall)
                 /\ \A i \in 1..Len(c.nl) : IsWrapperOf(c.nl[i], MatchesOfCall[i])
                 /\ \A i, j \in 1..Len(c.nl) : i # j => c.nl[i] # c.nl[j]
    /\ call.op \in {"list", "iterate"} =>
          /\ ret.kind = "return"
          /\ Len(ret.list) = heap[call.self.r].own["length"].r
          /\ \A i \in 1..Len(ret.list) : ret.list[i] \in Wrappers
          /\ \E s \in Selectors :
                IsValidSelector(s) /\ Unwrapped(ret.list) = QuerySelectorAll(dom, root, s)

C2_Witness ==
    /\ call.op = "iterate"
    /\ Len(ret.list) >= 2
    /\ Unwrapped(ret.list) = QuerySelectorAll(dom, root, S("div"))

\* The receiver's members and the numeric index of the last nth call
NthMembers == heap[call.self.r].nl
NthIndex == call.args[1].r
IsNthNumber == call.op = "nth" /\ call.args[1].ty = "number"

\* C3: nth with an index outside the valid range signals index-out-of-bounds.
C3_OutOfRangeThrows ==
    (IsNthNumber /\ (NthIndex >= Len(NthMembers) \/ NthIndex < -Len(NthMembers)))
        => ret = Throw(IndexOutOfBounds)

\* C4: on a collection of N >= 2 members nth(i) is the member at i for
\* 0 <= i < N and the member at N + i for -N <= i < 0; nth(0) is first() and
\* nth(-1) is last().
C4_NthInRange ==
    (call.op = "nth" /\ Len(NthMembers) >= 2) =>
        LET N == Len(NthMembers)
            c == heap[call.self.r]
        IN  /\ (IsNthNumber /\ NthIndex \in 0..(N - 1)) =>
                   ret = Return(NthMembers[NthIndex + 1])
            /\ (IsNthNumber /\ NthIndex \in (-N)..(-1)) =>
                   ret = Return(NthMembers[N + NthIndex + 1])
            /\ (IsNthNumber /\ NthIndex = 0) => ret = MQFirst(c)
            /\ (IsNthNumber /\ NthIndex = -1) => ret = MQLast(c)
            /\ call.args[1] = S("1") => ret = Return(NthMembers[2])

C4_Witness ==
    /\ IsNthNumber
    /\ Len(NthMembers) >= 2
    /\ NthIndex = -1
    /\ ret = Return(NthMembers[Len(NthMembers)])

-----------------------------------------------------------------------------
(* Properties of mass operations and of the single-node wrapper *)

\* Names defined on a wrapper itself: its fields and the methods of its class
WrapperNames == {"n", "length", "__isProxy"} \cup NodeWrapperProto

\* The element a wrapper holds
HeldNode(h, w) == h[w.r].own["n"].r

\* C5: a mass operation called on a collection without arguments signals an
\* illegal-argument error and leaves every element unchanged.
C5_NoArgMassOpThrows ==
    [][(call'.op \in MassOps /\ call'.self \in Collections /\ call'.args = <<>>)
          => (ret' = Throw(IllegalArgument) /\ dom' = dom)]_vars

\* Whether op(v) on a single-node wrapper writes v, as the code decides it
WritesContent(op, v) == Truthy(v) \/ (op = "val" /\ v = EmptyStr)

\* The call w.op(v) is followed by the call w.op() on the same wrapper, whose
\* element has a value property when op is val
IsRoundTrip(op) ==
    /\ call.op = op /\ Len(call.args) = 1
    /\ call'.op = op /\ call'.args = <<>>
    /\ call'.self = call.self
    /\ op = "val" => HasValue(dom, heap, NodeOf(dom, heap, call.self))

C8_PropertyFallThrough ==
    [][/\ call'.op = "get[]" =>
            LET p == call'.args[1].s[1]
                w == call'.self
            IN  IF p \in WrapperNames
                THEN ret' = Return(OwnOr(heap[w.r], p, Method("NodeWrapper", p)))
                ELSE ret' = Return(HostGet(dom[HeldNode(heap, w)], p))
       /\ call'.op = "set[]" =>
            LET p == call'.args[1].s[1]
                v == call'.args[2]
                w == call'.self
            IN  IF p \in WrapperNames
                THEN dom' = dom /\ heap' = [heap EXCEPT ![w.r].own[p] = v]
                ELSE /\ heap' = heap
                     /\ dom' = [dom EXCEPT ![HeldNode(heap, w)] = HostSet(@, p, v)]]_vars

C8_Witness ==
    /\ call.op = "get[]" /\ call.args = <<S("id")>>
    /\ ret = Return(S("z"))
    /\ dom[HeldNode(heap, call.self)].props["id"] = S("z")

-----------------------------------------------------------------------------
(* Properties of the entry dispatcher *)

IsObj(v, cls) == v.ty = "object" /\ heap[v.r].cls = cls

\* C7: given a wrapper, $ returns another NodeWrapper of the same element;
\* given a collection, $ returns another collection of the same members in
\* the same order.
C7_CopySameKind ==
    (call.op = "$" /\ call.args[1].ty = "object") =>
        LET a == call.args[1]
        IN  /\ IsObj(a, "NodeWrapper") =>
                 /\ ret.kind = "return"
                 /\ ret.val # a
                 /\ IsObj(ret.val, "NodeWrapper")
                 /\ CallGet(dom, heap, ret.val) = CallGet(dom, heap, a)
            /\ IsObj(a, "MQ") =>
                 /\ ret.kind = "return"
                 /\ ret.val # a
                 /\ IsObj(ret.val, "MQ")
                 /\ Unwrapped(heap[ret.val.r].nl) = Unwrapped(heap[a.r].nl)

\* The last call was $('<tag>', options) and it returned
IsCreateCall ==
    /\ call.op = "$"
    /\ call.args[1].ty = "string"
    /\ IsBracketed(call.args[1])
    /\ ret.kind = "return"

\* The options of the last call as the caller wrote them
LitOfCall == IF call.opt = 0 THEN NoProps ELSE heap[call.opt].lit

\* C9: $('<tag>', config) returns a NodeWrapper of one new element of that
\* tag, which carries exactly the caller's configuration keys as properties
\* and none of the marker keys __str__ and __isp__.
C9_CreateCopiesConfig ==
    IsCreateCall =>
        /\ IsObj(ret.val, "NodeWrapper")
        /\ heap[ret.val.r].own["n"] = ElemRef(Len(dom))
        /\ dom[Len(dom)].tag = call.args[1].s[2]
        /\ dom[Len(dom)].props =
              CopyKeys(NewElement(call.args[1].s[2], <<>>, {}), LitOfCall, KeyOrder).props
        /\ dom[Len(dom)].props["__str__"] = Absent
        /\ dom[Len(dom)].props["__isp__"] = Absent

\* C10: what a call of $ returns and does to the document and to the window
\* is what the same call does with a fresh options object holding the keys the
\* caller wrote, whatever calls were made before.
C10_CallsIndependent ==
    [][call'.op = "$" =>
          LET oi == call'.opt
              lit == IF oi = 0 THEN NoProps ELSE heap'[oi].lit
              h0 == IF oi = Len(heap) + 1 THEN Append(heap, Obj("Object", lit, <<>>, lit))
                    ELSE heap
              fresh == Dollar(dom, root, h0, win, call'.args[1], lit)
          IN  /\ ret' = fresh.ret
              /\ dom' = fresh.dom
              /\ win' = fresh.win]_vars

-----------------------------------------------------------------------------
(* Properties of chaining, counting and event binding *)

\* The mass operations that write
WriteOps == {"css", "html", "text", "each", "click", "on", "appendTo", "addClass",
             "removeClass"}

\* C11: a mass operation that writes, called on a collection, returns that
\* collection whenever it returns.
C11_MassWriteReturnsSelf ==
    (call.op \in WriteOps /\ call.self \in Collections /\ ret.kind = "return")
        => ret.val = call.self

\* C12: length() on a collection returns the number of its members, which is
\* also its count field and the number of values its iteration yields.
C12_LengthCounts ==
    call.op = "length" =>
        LET c == heap[call.self.r]
        IN  /\ ret = Return(Num(Len(c.nl)))
            /\ c.own["length"] = Num(Len(c.nl))
            /\ Len(MQIterate(c).list) = Len(c.nl)

\* The listener that $(f, options) is to register, from the options as the
\* caller wrote them
ListenerOfCall(c, lit) ==
    Listener(IF lit["on"] = Absent THEN S("load") ELSE lit["on"], c.args[1],
             IF lit["useCapture"] = Absent THEN False ELSE lit["useCapture"])

\* C13: $(callback, options) returns a wrapper and raises nothing, leaves the
\* window with exactly one listener of that callback, event name and capture
\* flag and every other listener as it was, and changes no element.
C13_CallbackRegisters ==
    [][(call'.op = "$" /\ call'.args[1].ty = "function") =>
          LET l == ListenerOfCall(call', IF call'.opt = 0 THEN NoProps ELSE heap'[call'.opt].lit)
          IN  /\ ret'.kind = "return"
              /\ ret'.val.ty = "object"
              /\ heap'[ret'.val.r].cls = "NodeWrapper"
              /\ win' = AddEventListener(win, l.event, l.cb, l.capture)
              /\ Cardinality({k \in 1..Len(win') : win'[k] = l}) = 1
              /\ dom' = dom /\ root' = root]_vars

\* The elements a receiver stands for: the element of a wrapper, the elements
\* of a collection's members
Targets(h, x) ==
    IF h[x.r].cls = "MQ" THEN {HeldNode(h, h[x.r].nl[k]) : k \in 1..Len(h[x.r].nl)}
    ELSE {HeldNode(h, x)}

\* on(e, c, u) lacks an event name or a callback that is a function
IsBadBind(args) ==
    ~Truthy(Arg(args, 1)) \/ ~Truthy(Arg(args, 2)) \/ TypeOf(Arg(args, 2)) # "function"

-----------------------------------------------------------------------------
(* Properties of moving elements and of failures *)

\* The element that a parent argument designates (0: none): the first match
\* of selector text, the element of a wrapped node, a raw host node
Designated(d, r, h, n) ==
    CASE n.ty = "string" /\ IsValidSelector(n) /\ QuerySelectorAll(d, r, n) # <<>> ->
            QuerySelectorAll(d, r, n)[1]
      [] n.ty = "object" /\ h[n.r].cls = "NodeWrapper" /\ h[n.r].own["n"].ty = "element" ->
            HeldNode(h, n)
      [] n.ty = "element" -> n.r
      [] OTHER -> 0

\* The elements that have n among their children
ParentsOf(d, n) == {i \in 1..Len(d) : \E k \in 1..Len(d[i].kids) : d[i].kids[k] = n}

\* C16: w.appendTo(parent), with the parent given as selector text, as a
\* wrapped node or as a raw host node that is not inside the wrapped element,
\* returns w and leaves the wrapped element as the last child of that parent
\* and of nothing else.
C16_AppendToMoves ==
    [][(call'.op = "appendTo" /\ call'.self \in Wrappers) =>
          LET n == HeldNode(heap, call'.self)
              p == Designated(dom, root, heap, call'.args[1])
          IN  (p # 0 /\ p \notin Subtree(dom, n)) =>
                 /\ ret' = Return(call'.self)
                 /\ dom'[p].kids # <<>>
                 /\ dom'[p].kids[Len(dom'[p].kids)] = n
                 /\ ParentsOf(dom', n) = {p}
                 /\ \A k \in 1..Len(root') : root'[k] # n]_vars

\* The five kinds of MQError
MQErrorKinds == {InvalidSelector, IllegalArgument, IndexOutOfBounds, ElementCreation,
                 EventBind}

\* C15: a call that fails raises an MQError of one of the five kinds, and no
\* other exception escapes.
C15_FailuresAreMQErrors == ret.kind = "throw" => ret.err \in MQErrorKinds

-----------------------------------------------------------------------------
(* Mass operations as one single-node operation per member *)

\* The members of the collection a call is made on
MembersOf(h, c) == h[c.r].nl

\* A content or class operation with the arguments it needs
IsValidMassWrite(op, args) ==
    \/ op \in {"text", "html"} /\ Truthy(Arg(args, 1))
    \/ op \in {"addClass", "removeClass"} /\ args # <<>>

\* C17: on a collection, each(c) invokes c once per member in member order and
\* returns the collection; map(c) does the same and returns the results in
\* member order; each and map with an argument that is not a function signal
\* an illegal-argument error and invoke nothing; text, html, addClass and
\* removeClass with valid arguments leave every member element as the
\* single-node operation on that member leaves it, and every other element
\* as it was.
C17_MassIsPerMember ==
    [][(call'.self \in Collections /\ call'.op \in {"each", "map", "text", "html", "addClass", "removeClass"}) =>
          LET op == call'.op
              args == call'.args
              nl == MembersOf(heap, call'.self)
              f == Arg(args, 1)
          IN  /\ (op \in {"each", "map"} /\ TypeOf(f) # "function") =>
                    ret' = Throw(IllegalArgument) /\ log' = <<>> /\ dom' = dom
              /\ (op \in {"each", "map"} /\ TypeOf(f) = "function") =>
                    /\ log' = [i \in 1..Len(nl) |-> Invocation(f, nl[i])]
                    /\ \A i \in 1..Len(dom) :
                          dom'[i] = IF \E k \in 1..Len(nl) : HeldNode(heap, nl[k]) = i
                                    THEN CallFn(dom, heap, f, nl[CHOOSE k \in 1..Len(nl) :
                                                HeldNode(heap, nl[k]) = i]).dom[i]
                                    ELSE dom[i]
                    /\ op = "each" => ret' = Return(call'.self)
                    /\ op = "map" =>
                          ret' = ReturnList([i \in 1..Len(nl) |->
                                               CallFn(dom, heap, f, nl[i]).ret.val])
              /\ IsValidMassWrite(op, args) =>
                    /\ ret' = Return(call'.self)
                    /\ \A i \in 1..Len(dom) :
                          dom'[i] = IF \E k \in 1..Len(nl) : HeldNode(heap, nl[k]) = i
                                    THEN NWApply(dom, heap, nl[CHOOSE k \in 1..Len(nl) :
                                                HeldNode(heap, nl[k]) = i], op, args).dom[i]
                                    ELSE dom[i]]_vars

C17_Witness ==
    /\ call.op = "map" /\ call.args = <<Fn("mark")>>
    /\ call.self \in Collections
    /\ Len(MembersOf(heap, call.self)) >= 2
    /\ ret = ReturnList(MembersOf(heap, call.self))
    /\ log = [i \in 1..Len(ret.list) |-> Invocation(Fn("mark"), ret.list[i])]
    /\ \A i \in Targets(heap, call.self) : "m" \in dom[i].classList

====
